---- MODULE Spec2Model ----
(***************************************************************************)
(* A model of the notes API (src/main.py, src/models.py): the two tables,  *)
(* the note handlers (create, list, get, update, delete) and the account   *)
(* handlers (register, login, token check).                                *)
(*                                                                         *)
(* A table is a set of rows; a row is a record of its columns.  Python's   *)
(* None and SQL's NULL are the string Null.  A JSON object and the keyword *)
(* arguments of an ORM constructor are functions from key to value.        *)
(***************************************************************************)
EXTENDS Integers, Sequences, FiniteSets, TLC

VARIABLES
  notes,        \* the rows of table "notes"
  autoInc,      \* the AUTO_INCREMENT counter of notes.id
  users,        \* the rows of table "users"
  userAutoInc,  \* the AUTO_INCREMENT counter of users.id
  now,          \* the clock read by datetime.now
  resp,         \* the response to the last request that completed
  sess,         \* the requests in flight, each with the session it holds
  commits       \* how many update transactions have committed

vars == <<notes, autoInc, users, userAutoInc, now, resp, sess, commits>>

-----------------------------------------------------------------------------
(* Bounds *)

MaxId == 2          \* note ids of the CRUD specification
MaxTime == 2        \* the clock runs 0..MaxTime
TicksPerDay == 2    \* clock ticks in a calendar day
MaxListed == 4      \* note ids of the listing specification
MaxPage == 4        \* page and page_size range over -1..MaxPage
MaxReq == 2         \* concurrent requests
MaxConcId == 1      \* note ids of the concurrent-update specification

-----------------------------------------------------------------------------
(* Values *)

Null == "<NULL>"

BodyDefault == "None"
UrlDefault == ""
CategoryDefault == "Personal"
UsernameDefault == "user1"

NoteColumns ==
  {"id", "title", "body", "url", "timestamp", "category", "username"}

NoteCreateFields == {"title", "body", "url", "category", "username"}

NoteUpdateFields == {"title", "body", "category"}

API_KEY == "k-good"
SECRET_KEY == "s-good"

Has(o, k) == k \in DOMAIN o

EmptyObj == [k \in {} |-> Null]

Days == <<"2024-01-01", "2024-01-02", "2024-01-03", "2024-01-04">>

\* datetime.now().strftime("%Y-%m-%d"): the calendar day of the instant t
strftime(t) == Days[(t \div TicksPerDay) + 1]

-----------------------------------------------------------------------------
(* The ORM: INSERT of a Note object *)

\* The value INSERT gives a column that has a default: a key that is absent
\* or None is left out of the statement, so the column default is used.
ColumnValue(obj, k, default) ==
  IF Has(obj, k) /\ obj[k] # Null THEN obj[k] ELSE default

\* An integer column (id, timestamp): absent means generated.
IntColumnValue(obj, k, generated) ==
  IF Has(obj, k) THEN obj[k] ELSE generated

\* The row INSERTed for the object Note(**obj) at instant t when the
\* AUTO_INCREMENT counter is ai.
NoteRow(obj, t, ai) ==
  [ id        |-> IntColumnValue(obj, "id", ai),
    title     |-> IF Has(obj, "title") THEN obj["title"] ELSE Null,
    body      |-> ColumnValue(obj, "body", BodyDefault),
    url       |-> ColumnValue(obj, "url", UrlDefault),
    timestamp |-> IntColumnValue(obj, "timestamp", t),
    category  |-> ColumnValue(obj, "category", CategoryDefault),
    username  |-> ColumnValue(obj, "username", UsernameDefault) ]

Ids(table) == {r.id : r \in table}

RowOf(table, id) == CHOOSE r \in table : r.id = id

\* select(Note).filter(Note.id == note_id) ... scalar_one_or_none()
Found(table, id) == \E r \in table : r.id = id

\* The primary key admits the row.
PrimaryKeyFree(table, row) == ~ Found(table, row.id)

\* The counter after an INSERT that used id.
NextAutoInc(ai, id) == IF id >= ai THEN id + 1 ELSE ai

\* response_model=NoteCreate: the five fields of NoteCreate
NoteCreateOf(row) == [k \in NoteCreateFields |-> row[k]]

\* NoteResponse(**note.__dict__)
NoteResponseOf(row) == [k \in NoteColumns |-> row[k]]

\* HTTPException(status_code, detail), or an exception that escapes (500)
Detail(text) == [detail |-> text]

NoResp == [op |-> "none", status |-> 0, id |-> 0, body |-> Detail("")]

Reply(op, status, id, body) ==
  [op |-> op, status |-> status, id |-> id, body |-> body]

-----------------------------------------------------------------------------
(* POST /notes/ *)

\* request.json(): what json.loads makes of the body
\*   "object"  a JSON object, req.obj
\*   "value"   valid JSON that is no object (a number, a string, a list)
\*   "invalid" JSONDecodeError
\* and a body that is not UTF-8 raises UnicodeDecodeError before that.
JsonOutcome(req) ==
  IF ~ req.utf8 THEN "UnicodeDecodeError"
  ELSE IF req.json = "invalid" THEN "JSONDecodeError"
  ELSE IF req.json = "value" THEN "TypeError"
  ELSE IF ~ (DOMAIN req.obj \subseteq NoteColumns) THEN "TypeError"
  ELSE "ok"

\* The keyword arguments of the Note the handler builds, when it builds one.
NoteData(req, t) ==
  IF JsonOutcome(req) = "JSONDecodeError"
  THEN [k \in {"title", "body"} |->
          IF k = "title" THEN strftime(t) ELSE req.text]
  ELSE req.obj

Builds(req) == JsonOutcome(req) \in {"ok", "JSONDecodeError"}

create_note(req, cap) ==
  LET row == NoteRow(NoteData(req, now), now, autoInc) IN
  /\ IF Builds(req) THEN row.id <= cap ELSE TRUE
  /\ IF Builds(req) /\ PrimaryKeyFree(notes, row)
     THEN /\ notes' = notes \cup {row}
          /\ autoInc' = NextAutoInc(autoInc, row.id)
          /\ resp' = Reply("create_note", 200, row.id, NoteCreateOf(row))
     ELSE /\ UNCHANGED <<notes, autoInc>>
          /\ resp' = Reply("create_note", 500, 0,
                           Detail(IF Builds(req) THEN "IntegrityError"
                                  ELSE JsonOutcome(req)))
  /\ UNCHANGED <<users, userAutoInc, now, sess, commits>>

-----------------------------------------------------------------------------
(* GET /notes/{note_id} *)

\* get_api_key, then the lookup: the response of GET /notes/{note_id}
ReadNoteResult(table, note_id, api_key) ==
  IF api_key # API_KEY
  THEN Reply("read_note", 403, note_id, Detail("Invalid API Key"))
  ELSE IF ~ Found(table, note_id)
  THEN Reply("read_note", 404, note_id, Detail("Note not found"))
  ELSE Reply("read_note", 200, note_id, NoteCreateOf(RowOf(table, note_id)))

read_note(note_id, api_key) ==
  /\ resp' = ReadNoteResult(notes, note_id, api_key)
  /\ UNCHANGED <<notes, autoInc, users, userAutoInc, now, sess, commits>>

-----------------------------------------------------------------------------
(* DELETE /notes/{note_id} *)

\* delete_note with the DELETE never committed
delete_note_NoCommit(note_id) ==
  /\ notes' = notes
  /\ resp' = IF Found(notes, note_id)
             THEN Reply("delete_note", 200, note_id,
                        NoteCreateOf(RowOf(notes, note_id)))
             ELSE Reply("delete_note", 404, note_id, Detail("Note not found"))
  /\ UNCHANGED <<autoInc, users, userAutoInc, now, sess, commits>>

delete_note(note_id) ==
  /\ IF Found(notes, note_id)
     THEN /\ notes' = notes \ {RowOf(notes, note_id)}
          /\ resp' = Reply("delete_note", 200, note_id,
                           NoteCreateOf(RowOf(notes, note_id)))
     ELSE /\ notes' = notes
          /\ resp' = Reply("delete_note", 404, note_id, Detail("Note not found"))
  /\ UNCHANGED <<autoInc, users, userAutoInc, now, sess, commits>>

-----------------------------------------------------------------------------
(* PUT /notes/{note_id} *)

\* note_update.dict() without exclude_unset: every NoteUpdate field, the
\* unset ones None
note_data_AllFields(body) ==
  [k \in NoteUpdateFields |-> IF Has(body, k) THEN body[k] ELSE Null]

\* NoteUpdate parses the body, ignoring keys it does not declare;
\* note_update.dict(exclude_unset=True) keeps the declared keys that were sent.
note_data(body) ==
  [k \in DOMAIN body \cap NoteUpdateFields |-> body[k]]

\* for key, value in note_data.items(): setattr(note, key, value)
SetAttrs(note, data) ==
  [k \in DOMAIN note |-> IF Has(data, k) THEN data[k] ELSE note[k]]

\* The columns the flush writes: the attributes whose value differs from
\* the value that was loaded.
Dirty(loaded, note) == {k \in DOMAIN note : note[k] # loaded[k]}

\* UPDATE notes SET <cols> = <note's values> WHERE id = <note.id>
UpdateRow(table, note, cols) ==
  {IF r.id = note.id
   THEN [k \in DOMAIN r |-> IF k \in cols THEN note[k] ELSE r[k]]
   ELSE r : r \in table}

update_note(note_id, body) ==
  /\ IF Found(notes, note_id)
     THEN LET loaded == RowOf(notes, note_id)
              note == SetAttrs(loaded, note_data(body))
              after == UpdateRow(notes, note, Dirty(loaded, note))
          IN /\ notes' = after
             /\ resp' = Reply("update_note", 200, note_id,
                              NoteCreateOf(RowOf(after, note_id)))
     ELSE /\ notes' = notes
          /\ resp' = Reply("update_note", 404, note_id,
                           Detail("Note not found"))
  /\ UNCHANGED <<autoInc, users, userAutoInc, now, sess, commits>>

-----------------------------------------------------------------------------
(* GET /notes/ *)

Max2(a, b) == IF a >= b THEN a ELSE b

Min2(a, b) == IF a <= b THEN a ELSE b

\* .where(Note.username == username)
Where(table, username) == {r \in table : r.username = username}

\* .order_by(Note.id.desc())
RECURSIVE OrderByIdDesc(_)
OrderByIdDesc(rows) ==
  IF rows = {} THEN <<>>
  ELSE LET top == CHOOSE r \in rows : \A q \in rows : q.id <= r.id
       IN <<top>> \o OrderByIdDesc(rows \ {top})

\* .offset(skip).limit(page_size)
OffsetLimit(seq, skip, limit) ==
  [i \in 1..Max2(0, Min2(limit, Len(seq) - skip)) |-> seq[skip + i]]

\* total_pages rounded down instead of up
TotalPages_Floor(total_count, page_size) == total_count \div page_size

\* (total_count + page_size - 1) // page_size
TotalPages(total_count, page_size) ==
  (total_count + page_size - 1) \div page_size

\* current_page without the clamp to total_pages
CurrentPage_NoUpperClamp(page, total_pages) == Max2(1, page)

\* max(1, min(page, total_pages))
CurrentPage(page, total_pages) == Max2(1, Min2(page, total_pages))

ReadNotesResult(table, username, page, page_size_in) ==
  LET page_size == Max2(1, page_size_in)
      total_count == Cardinality({r.id : r \in Where(table, username)})
      total_pages == TotalPages(total_count, page_size)
      current_page == CurrentPage(page, total_pages)
      skip == (current_page - 1) * page_size
      rows == OffsetLimit(OrderByIdDesc(Where(table, username)),
                          skip, page_size)
  IN Reply("read_notes", 200, 0,
           [ total_pages  |-> total_pages,
             current_page |-> current_page,
             data |-> [i \in 1..Len(rows) |-> NoteResponseOf(rows[i])] ])

read_notes(username, page, page_size) ==
  /\ resp' = ReadNotesResult(notes, username, page, page_size)
  /\ UNCHANGED <<notes, autoInc, users, userAutoInc, now, sess, commits>>

-----------------------------------------------------------------------------
(* Passwords and tokens *)

\* pwd_context.hash(password): bcrypt of the password under a fresh salt
get_password_hash(password, salt) ==
  [salt |-> salt, digest |-> <<"bcrypt", salt, password>>]

\* pwd_context.verify(plain_password, hashed_password)
verify_password(plain_password, hashed_password) ==
  hashed_password.digest = <<"bcrypt", hashed_password.salt, plain_password>>

\* jwt.encode(payload, key, algorithm=ALGORITHM)
jwt_encode(payload, key) ==
  [payload |-> payload, signature |-> <<"HS256", payload, key>>]

\* jwt.decode accepts the token: its signature is the key's
jwt_valid(token, key) == token.signature = <<"HS256", token.payload, key>>

create_access_token(data) == jwt_encode(data, SECRET_KEY)

Sub(username) == [k \in {"sub"} |-> username]

GetCurrentUserResult(token) ==
  IF ~ jwt_valid(token, SECRET_KEY)
  THEN Reply("get_current_user", 403, 0,
             Detail("Could not validate credentials"))
  ELSE IF ~ Has(token.payload, "sub")
  THEN Reply("get_current_user", 401, 0,
             Detail("Invalid authentication credentials"))
  ELSE Reply("get_current_user", 200, 0,
             [username |-> token.payload["sub"]])

get_current_user(token) ==
  /\ resp' = GetCurrentUserResult(token)
  /\ UNCHANGED <<notes, autoInc, users, userAutoInc, now, sess, commits>>

-----------------------------------------------------------------------------
(* POST /register and POST /token *)

\* a users table with no unique index on username
UsernameFree_NoUniqueIndex(table, username) == TRUE

\* unique=True on users.username admits the row
UsernameFree(table, username) == \A r \in table : r.username # username

\* User(username=..., hashed_password=...)
NewUser(username, hashed_password) ==
  [username |-> username, hashed_password |-> hashed_password]

UserRow(user, ai) ==
  [ id |-> ai,
    username |-> user.username,
    hashed_password |-> user.hashed_password ]

\* get_user_by_username: scalar_one_or_none()
UserFound(table, username) == \E r \in table : r.username = username

UserOf(table, username) == CHOOSE r \in table : r.username = username

create_user(username, password, salt) ==
  LET user == NewUser(username, get_password_hash(password, salt)) IN
  /\ IF UsernameFree(users, username)
     THEN /\ users' = users \cup {UserRow(user, userAutoInc)}
          /\ userAutoInc' = userAutoInc + 1
          /\ resp' = Reply("create_user", 200, 0,
                           [message |-> "User created successfully"])
     ELSE /\ UNCHANGED <<users, userAutoInc>>
          /\ resp' = Reply("create_user", 500, 0, Detail("IntegrityError"))
  /\ UNCHANGED <<notes, autoInc, now, sess, commits>>

\* login that looks the user up and never checks the password
login_NoPasswordCheck(username, password) ==
  /\ resp' = IF ~ UserFound(users, username)
             THEN Reply("login", 400, 0,
                        Detail("Incorrect username or password"))
             ELSE Reply("login", 200, 0,
                        [ access_token |->
                            create_access_token(
                              Sub(UserOf(users, username).username)),
                          token_type |-> "bearer" ])
  /\ UNCHANGED <<notes, autoInc, users, userAutoInc, now, sess, commits>>

login(username, password) ==
  /\ resp' = IF \/ ~ UserFound(users, username)
                \/ ~ verify_password(
                       password, UserOf(users, username).hashed_password)
             THEN Reply("login", 400, 0,
                        Detail("Incorrect username or password"))
             ELSE Reply("login", 200, 0,
                        [ access_token |->
                            create_access_token(
                              Sub(UserOf(users, username).username)),
                          token_type |-> "bearer" ])
  /\ UNCHANGED <<notes, autoInc, users, userAutoInc, now, sess, commits>>

-----------------------------------------------------------------------------
(* Requests that interleave: each holds a session of its own (get_db) and  *)
(* may be overtaken between two awaits.                                    *)

Requests == 1..MaxReq

Idle ==
  [ pc |-> "idle", op |-> "none", id |-> 0, body |-> EmptyObj,
    loaded |-> EmptyObj, note |-> EmptyObj, status |-> 0, seq |-> 0 ]

\* update_note up to the first await that writes: the SELECT, the 404 check
\* and the setattr loop on the loaded object
UpdateRead(r, note_id, body) ==
  /\ sess[r].pc = "idle"
  /\ sess' = [sess EXCEPT ![r] =
       IF Found(notes, note_id)
       THEN [ Idle EXCEPT !.pc = "loaded", !.op = "update_note",
                          !.id = note_id, !.body = body,
                          !.loaded = RowOf(notes, note_id),
                          !.note = SetAttrs(RowOf(notes, note_id),
                                            note_data(body)) ]
       ELSE [ Idle EXCEPT !.pc = "done", !.op = "update_note",
                          !.id = note_id, !.body = body, !.status = 404 ]]
  /\ resp' = IF Found(notes, note_id) THEN resp
             ELSE Reply("update_note", 404, note_id, Detail("Note not found"))
  /\ UNCHANGED <<notes, autoInc, users, userAutoInc, now, commits>>

\* await db.commit(): the flush writes the dirty columns, if any, and the
\* transaction commits; an UPDATE that matches no row raises StaleDataError
UpdateCommit(r) ==
  LET cols == Dirty(sess[r].loaded, sess[r].note)
      stale == cols # {} /\ ~ Found(notes, sess[r].id)
  IN
  /\ sess[r].pc = "loaded"
  /\ IF stale
     THEN /\ sess' = [sess EXCEPT ![r].pc = "done", ![r].status = 500]
          /\ resp' = Reply("update_note", 500, sess[r].id,
                           Detail("StaleDataError"))
          /\ UNCHANGED <<notes, commits>>
     ELSE /\ notes' = UpdateRow(notes, sess[r].note, cols)
          /\ commits' = commits + 1
          /\ sess' = [sess EXCEPT ![r].pc = "committed",
                                  ![r].seq = commits + 1]
          /\ resp' = resp
  /\ UNCHANGED <<autoInc, users, userAutoInc, now>>

\* await db.refresh(note) and the response
UpdateReturn(r) ==
  /\ sess[r].pc = "committed"
  /\ IF Found(notes, sess[r].id)
     THEN /\ sess' = [sess EXCEPT ![r].pc = "done", ![r].status = 200]
          /\ resp' = Reply("update_note", 200, sess[r].id,
                           NoteCreateOf(RowOf(notes, sess[r].id)))
     ELSE /\ sess' = [sess EXCEPT ![r].pc = "done", ![r].status = 500]
          /\ resp' = Reply("update_note", 500, sess[r].id,
                           Detail("InvalidRequestError"))
  /\ UNCHANGED <<notes, autoInc, users, userAutoInc, now, commits>>

\* create_user up to its await: the hash and the new User object
RegisterHash(r, username, password, salt) ==
  /\ sess[r].pc = "idle"
  /\ sess' = [sess EXCEPT ![r] =
       [ Idle EXCEPT !.pc = "hashed", !.op = "create_user",
                     !.body = [username |-> username, password |-> password],
                     !.note = NewUser(username,
                                      get_password_hash(password, salt)) ]]
  /\ UNCHANGED <<notes, autoInc, users, userAutoInc, now, resp, commits>>

\* await db.commit(): the INSERT, which the unique index may refuse
RegisterCommit(r) ==
  /\ sess[r].pc = "hashed"
  /\ IF UsernameFree(users, sess[r].note.username)
     THEN /\ users' = users \cup {UserRow(sess[r].note, userAutoInc)}
          /\ userAutoInc' = userAutoInc + 1
          /\ sess' = [sess EXCEPT ![r].pc = "done", ![r].status = 200]
          /\ resp' = Reply("create_user", 200, 0,
                           [message |-> "User created successfully"])
     ELSE /\ UNCHANGED <<users, userAutoInc>>
          /\ sess' = [sess EXCEPT ![r].pc = "done", ![r].status = 500]
          /\ resp' = Reply("create_user", 500, 0, Detail("IntegrityError"))
  /\ UNCHANGED <<notes, autoInc, now, commits>>

-----------------------------------------------------------------------------
(* The clock *)

Tick ==
  /\ now < MaxTime
  /\ now' = now + 1
  /\ UNCHANGED <<notes, autoInc, users, userAutoInc, resp, sess, commits>>

-----------------------------------------------------------------------------
(* The CRUD specification: create, get, delete, one request at a time *)

JsonObject(o) == [utf8 |-> TRUE, json |-> "object", obj |-> o, text |-> "{}"]

Text(s, kind) == [utf8 |-> TRUE, json |-> kind, obj |-> EmptyObj, text |-> s]

Bytes(s) == [utf8 |-> FALSE, json |-> "invalid", obj |-> EmptyObj, text |-> s]

TitleOnly == [k \in {"title"} |-> "A"]

NullBody == [k \in {"title", "body"} |-> IF k = "title" THEN "A" ELSE Null]

AllFields ==
  [k \in NoteCreateFields |->
     CASE k = "title" -> "B" [] k = "body" -> "b" [] k = "url" -> "x"
       [] k = "category" -> "Work" [] k = "username" -> "u2"]

WithId(i) == [k \in {"title", "id"} |-> IF k = "title" THEN "A" ELSE i]

WithTimestamp(t) ==
  [k \in {"title", "timestamp"} |-> IF k = "title" THEN "A" ELSE t]

UnknownKey == [k \in {"title", "foo"} |-> "A"]

\* The request bodies of POST /notes/.  Every JSON object among them carries
\* a string title, which NoteCreate and NoteResponse require of a note.
CreateRequests ==
  {JsonObject(o) : o \in {TitleOnly, NullBody, AllFields, UnknownKey}}
  \cup {JsonObject(WithId(i)) : i \in 1..MaxId}
  \cup {JsonObject(WithTimestamp(0))}
  \cup {Text("hi", "invalid"), Text("", "invalid"), Text("42", "value")}
  \cup {Bytes("\\xff")}

ApiKeys == {API_KEY, "k-bad"}

Init ==
  /\ notes = {}
  /\ autoInc = 1
  /\ users = {}
  /\ userAutoInc = 1
  /\ now = 0
  /\ resp = NoResp
  /\ sess = [r \in Requests |-> Idle]
  /\ commits = 0

Next ==
  \/ \E req \in CreateRequests : create_note(req, MaxId)
  \/ \E id \in 1..MaxId, key \in ApiKeys : read_note(id, key)
  \/ \E id \in 1..MaxId : delete_note(id)
  \/ Tick

Spec == Init /\ [][Next]_vars

-----------------------------------------------------------------------------
(* Claims about create, get and delete, checked under Spec *)

\* C3: deleteNote on an id that is not in the store answers 404 and leaves
\* the store unchanged; on an existing id it removes exactly that row and
\* leaves every other row as it was; and an id that is absent stays absent
\* (getNote answers 404) across every step that is not a create of that id.
C3_DeleteNote ==
  [][ /\ \A id \in 1..MaxId :
           delete_note(id) =>
             IF Found(notes, id)
             THEN /\ resp'.status = 200
                  /\ notes' = {r \in notes : r.id # id}
                  /\ ReadNoteResult(notes', id, API_KEY).status = 404
             ELSE /\ resp'.status = 404
                  /\ notes' = notes
      /\ \A id \in 1..MaxId :
           (/\ ReadNoteResult(notes, id, API_KEY).status = 404
            /\ ~ (resp'.op = "create_note" /\ resp'.status = 200
                                           /\ resp'.id = id))
           => ReadNoteResult(notes', id, API_KEY).status = 404 ]_vars

\* C3 witness: a delete has removed a row and another row is still there.
C3_Witness ==
  /\ resp.op = "delete_note"
  /\ resp.status = 200
  /\ ~ Found(notes, resp.id)
  /\ notes # {}

\* A valid payload: a JSON object of NoteCreate fields with a title.
ValidPayloads == {JsonObject(o) : o \in {TitleOnly, NullBody, AllFields}}

\* C4: createNote then getNote on the created id returns, for every field
\* present in the payload, the value submitted, and for every field the
\* value createNote returned.
C4_RoundTrip ==
  [][ \A req \in ValidPayloads :
        (create_note(req, MaxId) /\ resp'.status = 200) =>
          LET got == ReadNoteResult(notes', resp'.id, API_KEY) IN
          /\ got.status = 200
          /\ \A k \in DOMAIN req.obj : got.body[k] = req.obj[k]
          /\ got.body = resp'.body ]_vars

\* The text bodies that are not a JSON object.
Unstructured == {req \in CreateRequests : req.utf8 /\ req.json # "object"}

\* C6: for every body that is not a JSON object createNote does not fail:
\* it stores a new note whose body is the submitted text and whose title is
\* the current date, the other fields at their defaults.
C6_RawBodyFallback ==
  [][ \A req \in Unstructured :
        create_note(req, MaxId) =>
          /\ resp'.status = 200
          /\ \E r \in notes' \ notes :
                /\ r.body = req.text
                /\ r.title = strftime(now)
                /\ r.url = UrlDefault
                /\ r.category = CategoryDefault
                /\ r.username = UsernameDefault ]_vars

\* C8: whatever keys the payload holds, the id of a stored note is the one
\* the store generates, distinct from every other id, and its timestamp is
\* the creation time.
C8_ServerAssigned ==
  [][ \A r \in notes' \ notes :
        /\ r.id = autoInc
        /\ r.id \notin Ids(notes)
        /\ r.timestamp = now ]_vars

-----------------------------------------------------------------------------
(* The update specification: create, update, delete, one request at a time *)

NoFields == EmptyObj

BodyToNull == [k \in {"body"} |-> Null]

TitleAndCategory ==
  [k \in {"title", "category"} |-> IF k = "title" THEN "T" ELSE "Work"]

TitleAndUrl == [k \in {"title", "url"} |-> IF k = "title" THEN "T" ELSE "y"]

UpdateBodies == {NoFields, BodyToNull, TitleAndCategory, TitleAndUrl}

UpdNext ==
  \/ \E o \in {TitleOnly, AllFields} : create_note(JsonObject(o), MaxId)
  \/ \E id \in 1..MaxId, body \in UpdateBodies : update_note(id, body)
  \/ \E id \in 1..MaxId : delete_note(id)

UpdSpec == Init /\ [][UpdNext]_vars

\* C2: updateNote on an existing note gives every NoteUpdate field present
\* in the request the supplied value, leaves every other field of the note
\* (id, url, username, timestamp among them) as it was, and leaves every
\* other note unchanged.
C2_PartialUpdate ==
  [][ \A id \in 1..MaxId, body \in UpdateBodies :
        (/\ resp'.op = "update_note" /\ resp'.id = id
         /\ Found(notes, id) /\ update_note(id, body)) =>
          LET old == RowOf(notes, id) IN
          /\ resp'.status = 200
          /\ Ids(notes') = Ids(notes)
          /\ \A k \in NoteColumns :
               RowOf(notes', id)[k] =
                 IF k \in DOMAIN body \cap NoteUpdateFields
                 THEN body[k] ELSE old[k]
          /\ \A r \in notes : r.id # id => r \in notes' ]_vars

\* C2 witness: an update has set title and category of one note, its body
\* is still the one it was created with, and another note is in the store.
C2_Witness ==
  /\ resp.op = "update_note"
  /\ resp.status = 200
  /\ \E r \in notes :
       /\ r.id = resp.id
       /\ r.title = "T" /\ r.category = "Work" /\ r.body = "b"
       /\ r.url = "x" /\ r.username = "u2"
  /\ \E r \in notes : r.id # resp.id

-----------------------------------------------------------------------------
(* The listing specification: create, delete, list, one request at a time *)

Usernames == {"user1", "u2"}

PageInputs == (-1)..MaxPage

ListNext ==
  \/ \E o \in {TitleOnly, AllFields} : create_note(JsonObject(o), MaxListed)
  \/ \E id \in 1..MaxListed : delete_note(id)
  \/ \E u \in Usernames, page \in PageInputs, ps \in PageInputs :
       read_notes(u, page, ps)

ListSpec == Init /\ [][ListNext]_vars

\* The notes of username u as the API returns them.
NotesOf(u) == {NoteResponseOf(r) : r \in {q \in notes : q.username = u}}

\* ceil(n / p) for n >= 0 and p >= 1: the least t with t * p >= n
IsCeil(t, n, p) == t >= 0 /\ t * p >= n /\ (t > 0 => (t - 1) * p < n)

RECURSIVE ConcatPages(_, _, _, _)
ConcatPages(u, ps, from, to) ==
  IF from > to THEN <<>>
  ELSE ReadNotesResult(notes, u, from, ps).body.data
         \o ConcatPages(u, ps, from + 1, to)

-----------------------------------------------------------------------------
(* The account specification: register, login, token check *)

Passwords == {"p1", "p2"}

Salts == {"s1", "s2"}

Tokens ==
  {jwt_encode(Sub(u), k) : u \in Usernames, k \in {SECRET_KEY, "s-bad"}}
  \cup {jwt_encode([k \in {"iss"} |-> "x"], SECRET_KEY)}
  \cup {[ payload |-> Sub("u2"),
          signature |-> <<"HS256", Sub("user1"), SECRET_KEY>> ]}

AuthNext ==
  \/ \E u \in Usernames, p \in Passwords, s \in Salts : create_user(u, p, s)
  \/ \E u \in Usernames, p \in Passwords : login(u, p)
  \/ \E t \in Tokens : get_current_user(t)

AuthSpec == Init /\ [][AuthNext]_vars

\* C7: if a user row with the given username exists and the password
\* verifies against its stored hash, login returns an access token of type
\* bearer whose decoded subject is that username; otherwise it fails with
\* status 400 and returns no token; either way the user table is unchanged.
C7_Login ==
  [][ \A u \in Usernames, p \in Passwords :
        (resp'.op = "login" /\ login(u, p)) =>
          /\ users' = users
          /\ IF \E r \in users :
                  /\ r.username = u
                  /\ r.hashed_password.digest
                       = <<"bcrypt", r.hashed_password.salt, p>>
             THEN /\ resp'.status = 200
                  /\ resp'.body.token_type = "bearer"
                  /\ GetCurrentUserResult(resp'.body.access_token).status
                       = 200
                  /\ GetCurrentUserResult(resp'.body.access_token).body
                       = [username |-> u]
             ELSE /\ resp'.status = 400
                  /\ resp'.body = Detail("Incorrect username or password")
                  /\ ~ Has(resp'.body, "access_token") ]_vars

\* C7 witness: with two users registered, a login has returned a token
\* whose subject is a registered username.
C7_Witness ==
  /\ resp.op = "login"
  /\ resp.status = 200
  /\ Cardinality(users) = 2
  /\ UserFound(users, resp.body.access_token.payload["sub"])
  /\ jwt_valid(resp.body.access_token, SECRET_KEY)

-----------------------------------------------------------------------------
(* The registration specification: concurrent register requests *)

RegNext ==
  \/ \E r \in Requests, u \in Usernames, p \in Passwords, s \in Salts :
       RegisterHash(r, u, p, s)
  \/ \E r \in Requests : RegisterCommit(r)

RegSpec == Init /\ [][RegNext]_vars

\* The register requests for username u that have completed.
Registered(u) ==
  {r \in Requests : /\ sess[r].op = "create_user"
                    /\ sess[r].pc = "done"
                    /\ sess[r].body.username = u}

\* C5: under any interleaving of register requests at most one user row
\* exists per username, exactly one of the completed registrations of a
\* username succeeded, and a user row, once created, never changes: a
\* registration of an existing username fails and overwrites nothing.
C5_RegisterUnique ==
  [][ /\ \A a, b \in users' : a.username = b.username => a = b
      /\ \A u \in Usernames :
           LET done == {r \in Requests : /\ sess'[r].op = "create_user"
                                         /\ sess'[r].pc = "done"
                                         /\ sess'[r].body.username = u}
           IN done # {} =>
                Cardinality({r \in done : sess'[r].status = 200}) = 1
      /\ \A row \in users : row \in users' ]_vars

\* C5 witness: two registrations of one username with different passwords
\* have completed, and the row holds the hash of the one that succeeded.
C5_Witness ==
  \E u \in Usernames :
    /\ Cardinality(Registered(u)) >= 2
    /\ \E a, b \in Registered(u) :
         /\ sess[a].status = 200 /\ sess[b].status = 500
         /\ sess[a].body.password # sess[b].body.password
         /\ UserOf(users, u).hashed_password = sess[a].note.hashed_password

-----------------------------------------------------------------------------
(* The concurrent-update specification *)

TitleSame == [k \in {"title"} |-> "A"]

ConcUpdateBodies == {TitleSame, TitleAndCategory, BodyToNull}

ConcNext ==
  \/ create_note(JsonObject(TitleOnly), MaxConcId)
  \/ \E r \in Requests, id \in 1..MaxConcId, body \in ConcUpdateBodies :
       UpdateRead(r, id, body)
  \/ \E r \in Requests : UpdateCommit(r)
  \/ \E r \in Requests : UpdateReturn(r)

ConcSpec == Init /\ [][ConcNext]_vars

\* The update requests for note id that have committed.
Committed(id) ==
  {r \in Requests : /\ sess[r].op = "update_note"
                    /\ sess[r].id = id
                    /\ sess[r].pc \in {"committed", "done"}
                    /\ sess[r].seq > 0}

\* C10: when two updateNote requests for the same existing id interleave,
\* neither is rejected, and after both commit every field that both set
\* holds the value written by the request that committed last, while a
\* field set by neither is unchanged.
C10_LastWriterWins ==
  \A id \in 1..MaxConcId : \A a, b \in Committed(id) :
    (/\ sess[a].seq < sess[b].seq
     /\ \A c \in Committed(id) : sess[c].seq <= sess[b].seq
     /\ Found(notes, id)) =>
      /\ \A r \in {a, b} : sess[r].pc = "done" => sess[r].status = 200
      /\ \A k \in NoteUpdateFields :
           /\ (Has(sess[a].body, k) /\ Has(sess[b].body, k))
                => RowOf(notes, id)[k] = sess[b].body[k]
           /\ (\A c \in Committed(id) : ~ Has(sess[c].body, k))
                => RowOf(notes, id)[k] = sess[a].loaded[k]

====
